---- MODULE Spec2Model ----
\* A model of stl_reader.h: the text decoder ReadStlFile_ASCII, the binary
\* decoder ReadStlFile_BINARY and the deduplication stl_reader_impl::RemoveDoubles.
\* Buffers are flat sequences as in the code (stride 3); indices stored in
\* buffers are 0-based as in the code, positions of TLA+ sequences are 1-based.
EXTENDS Integers, Sequences, FiniteSets, TLC

\* ---------------------------------------------------------------- bounds
\* most raw coordinates handed to RemoveDoubles by the direct caller and most
\* vertex lines of a text file
MaxRaw == 4
\* most raw triangles handed to RemoveDoubles by the direct caller
MaxTris == 2
\* most lines (getline results) of a text file
MaxLines == 6
\* largest triangle count field of a binary file
MaxBinTris == 1

\* ---------------------------------------------------------------- data
\* the coordinate triples of the inputs (three of the coordinates of
\* tests/remove_doubles.t.cpp)
Points == { <<0, 1, 0>>, <<1, 0, 0>>, <<1, 1, 0>> }

\* the facet normals of the inputs
Normals == { <<0, 0, 1>>, <<1, 1, 0>> }

\* what a read outside a container may deliver
JunkValues == {0, 7}

\* element i (0-based, as the code indexes) of a buffer
At(s, i) == s[i + 1]

\* CoordWithIndex: data[3] and index
CoordWithIndex(d, i) == [data |-> d, index |-> i]

\* CoordWithIndex::operator !=
NotEqual(a, b) ==
    \/ b.data[1] # a.data[1]
    \/ b.data[2] # a.data[2]
    \/ b.data[3] # a.data[3]

\* CoordWithIndex::operator <
Less(a, b) ==
    \/ a.data[1] < b.data[1]
    \/ (a.data[1] = b.data[1] /\ a.data[2] < b.data[2])
    \/ (a.data[1] = b.data[1] /\ a.data[2] = b.data[2] /\ a.data[3] < b.data[3])

\* the set of the elements of a sequence
Range(s) == { s[i] : i \in 1..Len(s) }

\* std::sort (begin, end): every arrangement of the elements in which no
\* element is less than an earlier one; the order of equivalent elements is
\* unspecified.  The elements differ in their index tags.
RECURSIVE SortOutcomesOf(_)
SortOutcomesOf(S) ==
    IF S = {} THEN { <<>> }
    ELSE UNION { { <<m>> \o t : t \in SortOutcomesOf(S \ {m}) } :
                 m \in { x \in S : \A e \in S : ~Less(e, x) } }

SortOutcomes(s) == SortOutcomesOf(Range(s))

\* the value of curInd when the copy loop has handled position i (1-based)
\* of the sorted array: the number of positions 2..i that start a new run
CurInd(s, i) == Cardinality({ k \in 2..i : NotEqual(s[k], s[k - 1]) })

\* a count that starts at 0 instead of 1
NumUniqueFromZero(s) == Cardinality({ k \in 2..Len(s) : NotEqual(s[k], s[k - 1]) })

\* numUnique after the counting loop (it starts at 1, also for an empty array)
NumUnique(s) == 1 + Cardinality({ k \in 2..Len(s) : NotEqual(s[k], s[k - 1]) })

\* a copy loop that copies the entry before the start of a run
UniqueCoordsPrev(s) ==
    [p \in 1..(3 * NumUnique(s)) |->
        LET r == (p - 1) \div 3
            j == ((p - 1) % 3) + 1
            i == CHOOSE k \in 1..Len(s) :
                     /\ CurInd(s, k) = r
                     /\ (k = 1 \/ NotEqual(s[k], s[k - 1]))
        IN  s[IF i = 1 THEN 1 ELSE i - 1].data[j]]

\* uniqueCoordsOut after resize (numUnique * 3) and the copy loop, for a
\* non-empty sorted array: slot r holds the coordinate that starts run r
UniqueCoords(s) ==
    [p \in 1..(3 * NumUnique(s)) |->
        LET r == (p - 1) \div 3
            j == ((p - 1) % 3) + 1
            i == CHOOSE k \in 1..Len(s) :
                     /\ CurInd(s, k) = r
                     /\ (k = 1 \/ NotEqual(s[k], s[k - 1]))
        IN  s[i].data[j]]

\* an index map that records the position in the sorted array instead of curInd
NewIndexByPosition(s) ==
    [t \in 0..(Len(s) - 1) |->
        LET W == { i \in 2..Len(s) : s[i].index = t }
        IN  IF W = {} THEN 0
            ELSE (CHOOSE i \in W : \A k \in W : k <= i) - 1]

\* newIndex: a vector of size() zeros; newIndex[0] = 0; then for the positions
\* i = 1.. of the sorted array newIndex[c.index] = curInd (the last write wins)
NewIndex(s) ==
    [t \in 0..(Len(s) - 1) |->
        LET W == { i \in 2..Len(s) : s[i].index = t }
        IN  IF W = {} THEN 0
            ELSE CurInd(s, CHOOSE i \in W : \A k \in W : k <= i)]

\* a test that overlooks that the first and the last corner coincide
TwoDifferent(ni) == (ni[1] # ni[2]) /\ (ni[2] # ni[3])

\* the test of the re-indexing loop: three different indices
ThreeDifferent(ni) == (ni[1] # ni[2]) /\ (ni[1] # ni[3]) /\ (ni[2] # ni[3])

\* a re-indexing loop that ends at the first triangle it does not keep
RECURSIVE ReindexUntilDropped(_, _)
ReindexUntilDropped(tris, newIndex) ==
    IF Len(tris) < 3 THEN <<>>
    ELSE LET ni == << newIndex[tris[1]], newIndex[tris[2]], newIndex[tris[3]] >>
         IN  IF ThreeDifferent(ni)
             THEN ni \o ReindexUntilDropped(SubSeq(tris, 4, Len(tris)), newIndex)
             ELSE <<>>

\* the re-indexing loop and the final resize: the triangles whose three new
\* indices differ, in their order, written to the front of trisInOut
RECURSIVE Reindex(_, _)
Reindex(tris, newIndex) ==
    IF Len(tris) < 3 THEN <<>>
    ELSE LET ni == << newIndex[tris[1]], newIndex[tris[2]], newIndex[tris[3]] >>
         IN  (IF ThreeDifferent(ni) THEN ni ELSE <<>>)
                 \o Reindex(SubSeq(tris, 4, Len(tris)), newIndex)


\* ---------------------------------------------------------------- state
VARIABLES
    pc,               \* "start", "test" (before the direct call), "ascii" (in the line loop), "binary" (in the record loop), "done", "crashed"
    fn,               \* the function called last: "none", "test", "refeed", "ascii", "binary"
    ret,              \* its result: "none" (running), "true", "throw", "crash"
    errMsg,           \* the message thrown, "" without one
    errLine,          \* the line number in the thrown message, 0 without one
    coordsOut,        \* coordsOut / uniqueCoordsOut
    normalsOut,       \* normalsOut
    trisOut,          \* trisOut / trisInOut
    solidRangesOut,   \* solidRangesOut
    coordsWithIndex,  \* coordsWithIndex / coordsWithIndexInOut
    firstWord,        \* the first word of the file if STLFileHasASCIIFormat takes the file for a text file with it, "" if not
    buffer,           \* buffer, the line that getline delivered last
    solidLine,        \* the file had a line whose first token is "solid" among the lines read
    tokens,           \* tokens, kept between lines; maxNumTokens is its length
    lineCount,        \* lineCount
    numFaceVrts,      \* numFaceVrts
    numTris,          \* numTris, the count field of the binary file
    tri,              \* tri, the loop counter of the binary decoder
    fileSize,         \* the length in bytes of the binary file
    bytesLeft,        \* the bytes of the binary file not yet read
    rawCoords,        \* coordsWithIndexInOut at the last entry of RemoveDoubles
    rawTris,          \* trisInOut at the last entry of RemoveDoubles
    rawNormals,       \* the caller's normals at the last entry of RemoveDoubles
    rawRanges,        \* the caller's solid ranges at the last entry of RemoveDoubles
    oob               \* RemoveDoubles accessed an element outside a container

vars == << pc, fn, ret, errMsg, errLine, coordsOut, normalsOut, trisOut, solidRangesOut,
           coordsWithIndex, firstWord, buffer, solidLine, tokens, lineCount,
           numFaceVrts, numTris, tri, fileSize, bytesLeft, rawCoords, rawTris, rawNormals,
           rawRanges, oob >>

\* what the caller's containers may hold from an earlier use
Leftover == { <<>>, <<5, 5, 5>> }

\* before the call: the caller's containers are empty or hold earlier content
Init ==
    /\ pc = "start" /\ fn = "none" /\ ret = "none" /\ errMsg = "" /\ errLine = 0
    /\ \E l \in Leftover :
          coordsOut = l /\ normalsOut = l /\ trisOut = l /\ solidRangesOut = l
    /\ coordsWithIndex = <<>>
    /\ firstWord = "" /\ buffer = [toks |-> <<>>, trail |-> FALSE]
    /\ solidLine = FALSE
    /\ tokens = <<>> /\ lineCount = 1 /\ numFaceVrts = 0
    /\ numTris = 0 /\ tri = 0 /\ fileSize = 0 /\ bytesLeft = 0
    /\ rawCoords = <<>> /\ rawTris = <<>> /\ rawNormals = <<>> /\ rawRanges = <<>>
    /\ oob = FALSE

\* ---------------------------------------------------------------- RemoveDoubles
\* The outcomes of RemoveDoubles (uniqueCoordsOut, trisInOut, coordsWithIndexInOut).
\* With an empty array numUnique is 1, uniqueCoordsOut gets 3 entries,
\* newIndex[0] = 0 writes outside the empty vector newIndex and
\* coordsWithIndexInOut[0][i] reads outside the empty array: the call crashes,
\* or goes on with whatever the reads delivered.
RemoveDoubles(trisInOut, coordsWithIndexInOut) ==
    IF coordsWithIndexInOut = <<>>
    THEN { [uniqueCoordsOut |-> <<0, 0, 0>>, trisInOut |-> trisInOut,
            coordsWithIndexInOut |-> <<>>, crash |-> TRUE, oob |-> TRUE] }
         \cup
         { [uniqueCoordsOut |-> <<x, y, z>>, trisInOut |-> trisInOut,
            coordsWithIndexInOut |-> <<>>, crash |-> FALSE, oob |-> TRUE] :
           x \in JunkValues, y \in JunkValues, z \in JunkValues }
    ELSE { [uniqueCoordsOut |-> UniqueCoords(s),
            trisInOut |-> Reindex(trisInOut, NewIndex(s)),
            coordsWithIndexInOut |-> s, crash |-> FALSE, oob |-> FALSE] :
           s \in SortOutcomes(coordsWithIndexInOut) }

\* the reader's variables that a direct call of RemoveDoubles leaves alone
readerVars == << errMsg, errLine, firstWord, buffer, solidLine, tokens, lineCount, numFaceVrts,
                 numTris, tri, fileSize, bytesLeft >>

\* ---------------------------------------------------------------- direct caller
\* the arrays a direct caller hands over: n coordinates, tagged 0..n-1 in
\* order or in reverse order
TestCoords(n) ==
    { [i \in 1..n |-> CoordWithIndex(d[i], IF rev THEN n - i ELSE i - 1)] :
      d \in [1..n -> Points], rev \in IF n > 1 THEN BOOLEAN ELSE {FALSE} }

\* the triangles a direct caller names: three consecutive raw indices, forward
\* (as the decoders write them and as in the first two triangles of
\* tests/remove_doubles.t.cpp) or backward (as in its third triangle)
TestTriangles(n) ==
    { << i, i + 1, i + 2 >> : i \in 0..(n - 3) } \cup
    { << i + 2, i + 1, i >> : i \in 0..(n - 3) }

\* the triangle lists of k triangles over the indices 0..n-1
RECURSIVE TestTrisOf(_, _)
TestTrisOf(n, k) ==
    IF k = 0 THEN { <<>> }
    ELSE { t \o ts : t \in TestTriangles(n), ts \in TestTrisOf(n, k - 1) }

TestTris(n) == UNION { TestTrisOf(n, k) : k \in 0..MaxTris }

\* testRemoveDoubles, its declarations: the caller's arrays, a fresh
\* uniqueCoordsOut
TestSetup ==
    /\ pc = "start" /\ coordsOut = <<>>
    /\ \E n \in 0..MaxRaw : \E cs \in TestCoords(n), ts \in TestTris(n) :
          /\ coordsWithIndex' = cs /\ trisOut' = ts
    /\ pc' = "test" /\ fn' = "test"
    /\ UNCHANGED << ret, coordsOut, normalsOut, solidRangesOut, rawCoords,
                    rawTris, rawNormals, rawRanges, oob >>
    /\ UNCHANGED readerVars

\* testRemoveDoubles, its call of RemoveDoubles; the reordered array is a
\* local copy that the test does not look at and that ends with the test
TestRemoveDoubles ==
    /\ pc = "test"
    /\ \E o \in RemoveDoubles(trisOut, coordsWithIndex) :
          /\ rawCoords' = coordsWithIndex /\ rawTris' = trisOut
          /\ rawNormals' = normalsOut /\ rawRanges' = solidRangesOut
          /\ coordsOut' = o.uniqueCoordsOut
          /\ trisOut' = o.trisInOut
          /\ coordsWithIndex' = <<>>
          /\ oob' = o.oob
          /\ ret' = IF o.crash THEN "crash" ELSE "true"
          /\ pc' = IF o.crash THEN "crashed" ELSE "done"
    /\ UNCHANGED << fn, normalsOut, solidRangesOut >>
    /\ UNCHANGED readerVars

\* the unique buffer as an array of CoordWithIndex, entry i tagged i
Tagged(coords) ==
    [i \in 1..(Len(coords) \div 3) |->
        CoordWithIndex(<< coords[3 * i - 2], coords[3 * i - 1], coords[3 * i] >>, i - 1)]

\* RemoveDoubles called again on the buffers a successful call produced
\* (a triangle list over the indices of the coordinate list)
TestRefeed ==
    /\ pc = "done" /\ ret = "true" /\ fn # "refeed"
    /\ \A i \in 1..Len(trisOut) : trisOut[i] \in 0..((Len(coordsOut) \div 3) - 1)
    /\ \E o \in RemoveDoubles(trisOut, Tagged(coordsOut)) :
          /\ rawCoords' = Tagged(coordsOut) /\ rawTris' = trisOut
          /\ rawNormals' = normalsOut /\ rawRanges' = solidRangesOut
          /\ coordsOut' = o.uniqueCoordsOut
          /\ trisOut' = o.trisInOut
          /\ coordsWithIndex' = <<>>
          /\ oob' = o.oob
          /\ fn' = "refeed"
          /\ ret' = IF o.crash THEN "crash" ELSE "true"
          /\ pc' = IF o.crash THEN "crashed" ELSE "done"
    /\ UNCHANGED << normalsOut, solidRangesOut >>
    /\ UNCHANGED readerVars

\* ---------------------------------------------------------------- format sniffer
\* the first whitespace-delimited words of the files of the inputs
FirstWords == { "solid", "SOLID", "binary" }

\* transform (..., ::tolower) on the words of the inputs
ToLower(word) == IF word = "SOLID" THEN "solid" ELSE word

\* STLFileHasASCIIFormat, on the first word of the file
STLFileHasASCIIFormat(word) == ToLower(word) = "solid"

\* the first words with which ReadStlFile calls the text decoder, and "" for
\* a file with another first word, which only a caller of ReadStlFile_ASCII
\* itself hands to the text decoder
AsciiFirstWords == { "" } \cup { w \in FirstWords : STLFileHasASCIIFormat(w) }

\* ---------------------------------------------------------------- text decoder
\* A line of the file: its whitespace-delimited tokens, and whether whitespace
\* (a blank or a carriage return) follows the last token.
Line(toks, trail) == [toks |-> toks, trail |-> trail]

\* the vertex lines of the inputs, one per element of Points
VertexLines ==
    { Line(<<"vertex", "0", "1", "0">>, FALSE),
      Line(<<"vertex", "1", "0", "0">>, FALSE),
      Line(<<"vertex", "1", "1", "0">>, FALSE) }

\* the lines of the inputs
Lines ==
    VertexLines \cup
    { Line(<<"vertex", "1", "0">>, FALSE),
      Line(<<"vertex", "1", "0">>, TRUE),
      Line(<<"facet", "normal", "0", "0", "1">>, FALSE),
      Line(<<"facet", "normal", "0", "0">>, FALSE),
      Line(<<"facet", "0", "0", "1", "0">>, FALSE),
      Line(<<"outer", "loop">>, FALSE),
      Line(<<"outer">>, FALSE),
      Line(<<"endfacet">>, FALSE),
      Line(<<"solid">>, FALSE),
      Line(<<"endloop">>, FALSE),
      Line(<<>>, FALSE) }

\* the line that heads the files of the inputs that start with "SOLID"
HeadLines == { Line(<<"SOLID">>, FALSE) }

\* atof on the tokens of the inputs: the value of a numeral, 0 for a token
\* that does not start with a number
Atof(tok) == IF tok = "1" THEN 1 ELSE 0

\* tokenCount after the tokenizing loop: every token is extracted; the loop
\* ends when an extraction reaches the end of the line, so an empty line and
\* a line with whitespace after its last token take one more, failing
\* extraction, which is counted too
TokenCount(line) ==
    IF line.toks # <<>> /\ ~line.trail THEN Len(line.toks) ELSE Len(line.toks) + 1

\* tokens after the tokenizing loop: it is never cleared, only grown; a
\* failing extraction leaves its string as it was (empty when new)
Tokenize(line, toks) ==
    LET n == IF TokenCount(line) > Len(toks) THEN TokenCount(line) ELSE Len(toks)
    IN  [i \in 1..n |-> IF i <= Len(line.toks) THEN line.toks[i]
                        ELSE IF i <= Len(toks) THEN toks[i] ELSE ""]

\* an opening that does not clear coordsOut
AsciiOpenNoClear ==
    /\ pc = "start"
    /\ fn' = "ascii" /\ errLine' = 0
    /\ \E opened \in BOOLEAN :
          IF opened THEN pc' = "ascii" /\ ret' = "none" /\ errMsg' = ""
          ELSE pc' = "done" /\ ret' = "throw" /\ errMsg' = "Couldnt open file"
    /\ UNCHANGED coordsOut /\ normalsOut' = <<>> /\ trisOut' = <<>>
    /\ solidRangesOut' = <<>> /\ coordsWithIndex' = <<>>
    /\ \E w \in AsciiFirstWords : firstWord' = w
    /\ buffer' = Line(<<>>, FALSE) /\ solidLine' = FALSE
    /\ tokens' = <<>> /\ lineCount' = 1 /\ numFaceVrts' = 0
    /\ UNCHANGED << numTris, tri, fileSize, bytesLeft, rawCoords, rawTris,
                    rawNormals, rawRanges, oob >>

\* the four clear() calls and the opening of the text file, which fails
\* ("Couldnt open file") or not
AsciiOpen ==
    /\ pc = "start"
    /\ fn' = "ascii" /\ errLine' = 0
    /\ \E opened \in BOOLEAN :
          IF opened THEN pc' = "ascii" /\ ret' = "none" /\ errMsg' = ""
          ELSE pc' = "done" /\ ret' = "throw" /\ errMsg' = "Couldnt open file"
    /\ coordsOut' = <<>> /\ normalsOut' = <<>> /\ trisOut' = <<>>
    /\ solidRangesOut' = <<>> /\ coordsWithIndex' = <<>>
    /\ \E w \in AsciiFirstWords : firstWord' = w
    /\ buffer' = Line(<<>>, FALSE) /\ solidLine' = FALSE
    /\ tokens' = <<>> /\ lineCount' = 1 /\ numFaceVrts' = 0
    /\ UNCHANGED << numTris, tri, fileSize, bytesLeft, rawCoords, rawTris,
                    rawNormals, rawRanges, oob >>

\* READ_STL_THROW in the line loop: the exception leaves the function, the
\* local coordsWithIndex is destroyed
AsciiThrow(msg) ==
    /\ pc' = "done" /\ ret' = "throw" /\ errMsg' = msg /\ errLine' = lineCount
    /\ coordsWithIndex' = <<>>
    /\ UNCHANGED << coordsOut, normalsOut, trisOut, solidRangesOut,
                    lineCount, numFaceVrts >>

\* the end of an iteration that did not throw
AsciiNextLine ==
    /\ lineCount' = lineCount + 1
    /\ UNCHANGED << pc, ret, errMsg, errLine, coordsOut >>

\* a line with a token has been read: the file's first word is behind
FirstWordRead == tokens # <<>> /\ tokens[1] # ""

\* one iteration of the line loop on the line that getline delivered; the
\* first token of the file is the word that STLFileHasASCIIFormat extracted
AsciiLine(line) ==
    /\ pc = "ascii" /\ lineCount <= MaxLines
    /\ (~FirstWordRead /\ line.toks # <<>>) =>
           IF firstWord # "" THEN line.toks[1] = firstWord
           ELSE ~STLFileHasASCIIFormat(line.toks[1])
    /\ buffer' = line
    /\ solidLine' = (solidLine \/ (line.toks # <<>> /\ line.toks[1] = "solid"))
    /\ tokens' = Tokenize(line, tokens)
    /\ LET tokenCount == TokenCount(line)
           tok == tokens'[1]
       IN  CASE tok = "vertex" ->
                  IF tokenCount < 4
                  THEN AsciiThrow("vertex not specified correctly in line")
                  ELSE /\ Len(coordsWithIndex) < MaxRaw
                       /\ coordsWithIndex' = Append(coordsWithIndex,
                              CoordWithIndex(<< Atof(tokens'[2]), Atof(tokens'[3]),
                                                Atof(tokens'[4]) >>,
                                             Len(coordsWithIndex)))
                       /\ numFaceVrts' = numFaceVrts + 1
                       /\ UNCHANGED << normalsOut, trisOut, solidRangesOut >>
                       /\ AsciiNextLine
             [] tok = "facet" ->
                  IF tokenCount < 5
                  THEN AsciiThrow("triangle not specified correctly in line")
                  ELSE IF tokens'[2] # "normal"
                  THEN AsciiThrow("Missing normal specifier in line")
                  ELSE /\ normalsOut' = normalsOut \o << Atof(tokens'[3]),
                                            Atof(tokens'[4]), Atof(tokens'[5]) >>
                       /\ numFaceVrts' = 0
                       /\ UNCHANGED << coordsWithIndex, trisOut, solidRangesOut >>
                       /\ AsciiNextLine
             [] tok = "outer" ->
                  IF tokenCount < 2 \/ tokens'[2] # "loop"
                  THEN AsciiThrow("expecting outer loop in line")
                  ELSE /\ UNCHANGED << coordsWithIndex, normalsOut, trisOut,
                                       solidRangesOut, numFaceVrts >>
                       /\ AsciiNextLine
             [] tok = "endfacet" ->
                  IF numFaceVrts # 3
                  THEN AsciiThrow("bad number of vertices specified for face in line")
                  ELSE /\ trisOut' = trisOut \o << Len(coordsWithIndex) - 3,
                                Len(coordsWithIndex) - 2, Len(coordsWithIndex) - 1 >>
                       /\ UNCHANGED << coordsWithIndex, normalsOut, solidRangesOut,
                                       numFaceVrts >>
                       /\ AsciiNextLine
             [] tok = "solid" ->
                  /\ solidRangesOut' = Append(solidRangesOut, Len(trisOut) \div 3)
                  /\ UNCHANGED << coordsWithIndex, normalsOut, trisOut, numFaceVrts >>
                  /\ AsciiNextLine
             [] OTHER ->
                  /\ UNCHANGED << coordsWithIndex, normalsOut, trisOut,
                                  solidRangesOut, numFaceVrts >>
                  /\ AsciiNextLine
    /\ UNCHANGED << fn, firstWord, numTris, tri, fileSize, bytesLeft, rawCoords,
                    rawTris, rawNormals, rawRanges, oob >>

\* the line loop on the files of the inputs: any of Lines, headed or not by
\* one of HeadLines
AsciiRead ==
    \E line \in (IF FirstWordRead THEN Lines ELSE Lines \cup HeadLines) : AsciiLine(line)

\* the end of the file: the closing solid range, RemoveDoubles, return true.
\* The loop body has run at least once (an empty file delivers one empty line).
AsciiEnd ==
    /\ pc = "ascii" /\ lineCount > 1
    /\ firstWord # "" => FirstWordRead
    /\ LET ranges == Append(solidRangesOut, Len(trisOut) \div 3)
       IN  \E o \in RemoveDoubles(trisOut, coordsWithIndex) :
              /\ rawCoords' = coordsWithIndex /\ rawTris' = trisOut
              /\ rawNormals' = normalsOut /\ rawRanges' = ranges
              /\ solidRangesOut' = ranges
              /\ coordsOut' = o.uniqueCoordsOut
              /\ trisOut' = o.trisInOut
              /\ coordsWithIndex' = <<>>
              /\ oob' = o.oob
              /\ ret' = IF o.crash THEN "crash" ELSE "true"
              /\ pc' = IF o.crash THEN "crashed" ELSE "done"
    /\ UNCHANGED << fn, errMsg, errLine, normalsOut, firstWord, buffer, solidLine, tokens,
                    lineCount, numFaceVrts, numTris, tri, fileSize, bytesLeft >>

\* ---------------------------------------------------------------- binary decoder
\* the sizes in bytes of the files of the inputs: shorter than the header,
\* header only, and header and count field followed by whole triangle records
\* and possibly by the 48 bytes of floats of one more
FileSizes == {0, 80} \cup { 84 + 50 * k + d : k \in 0..MaxBinTris, d \in {0, 48} }

\* READ_STL_COND_THROW (!in, ...) in the binary decoder
BinaryThrow(msg) ==
    /\ pc' = "done" /\ ret' = "throw" /\ errMsg' = msg
    /\ coordsWithIndex' = <<>>

\* the four clear() calls, the opening of the file, the 80 bytes of the
\* header and the 4 bytes of the triangle count; the headers of the inputs do
\* not start with a word that STLFileHasASCIIFormat takes for a text file
BinaryOpen ==
    /\ pc = "start"
    /\ fn' = "binary" /\ errLine' = 0
    /\ coordsOut' = <<>> /\ normalsOut' = <<>> /\ trisOut' = <<>>
    /\ solidRangesOut' = <<>>
    /\ firstWord' = ""
    /\ \E opened \in BOOLEAN, size \in FileSizes, count \in 0..MaxBinTris :
          IF ~opened
          THEN /\ BinaryThrow("Couldnt open file")
               /\ UNCHANGED << numTris, tri, fileSize, bytesLeft >>
          ELSE /\ fileSize' = size
               /\ IF size < 80
                  THEN /\ BinaryThrow("Error while parsing binary stl header in file")
                       /\ UNCHANGED << numTris, tri, bytesLeft >>
                  ELSE IF size < 84
                  THEN /\ BinaryThrow("Couldnt determine number of triangles in binary stl file")
                       /\ UNCHANGED << numTris, tri, bytesLeft >>
                  ELSE /\ pc' = "binary" /\ ret' = "none" /\ errMsg' = ""
                       /\ coordsWithIndex' = <<>>
                       /\ numTris' = count /\ tri' = 0 /\ bytesLeft' = size - 84
    /\ UNCHANGED << buffer, solidLine, tokens, lineCount, numFaceVrts, rawCoords, rawTris,
                    rawNormals, rawRanges, oob >>

\* an iteration that takes a record for its 12 floats only
BinaryTriangleFloatsOnly ==
    /\ pc = "binary" /\ tri < numTris
    /\ IF bytesLeft < 48
       THEN /\ BinaryThrow("Error while parsing trianlge in binary stl file")
            /\ UNCHANGED << normalsOut, trisOut, tri, bytesLeft >>
       ELSE \E n \in Normals, c1 \in Points, c2 \in Points, c3 \in Points :
            LET size == Len(coordsWithIndex)
                coords == coordsWithIndex \o << CoordWithIndex(c1, size),
                              CoordWithIndex(c2, size + 1), CoordWithIndex(c3, size + 2) >>
            IN  /\ normalsOut' = normalsOut \o n
                /\ trisOut' = trisOut \o << Len(coords) - 3, Len(coords) - 2,
                                            Len(coords) - 1 >>
                /\ coordsWithIndex' = coords
                /\ tri' = tri + 1 /\ bytesLeft' = bytesLeft - 48
                /\ UNCHANGED << pc, ret, errMsg >>
    /\ UNCHANGED << fn, errLine, coordsOut, solidRangesOut, firstWord, buffer, solidLine,
                    tokens, lineCount, numFaceVrts, numTris, fileSize, rawCoords,
                    rawTris, rawNormals, rawRanges, oob >>

\* one iteration of the triangle loop: 12 floats (normal, three corners),
\* then 2 bytes of additional data
BinaryTriangle ==
    /\ pc = "binary" /\ tri < numTris
    /\ IF bytesLeft < 48
       THEN /\ BinaryThrow("Error while parsing trianlge in binary stl file")
            /\ UNCHANGED << normalsOut, trisOut, tri, bytesLeft >>
       ELSE \E n \in Normals, c1 \in Points, c2 \in Points, c3 \in Points :
            LET size == Len(coordsWithIndex)
                coords == coordsWithIndex \o << CoordWithIndex(c1, size),
                              CoordWithIndex(c2, size + 1), CoordWithIndex(c3, size + 2) >>
            IN  /\ normalsOut' = normalsOut \o n
                /\ trisOut' = trisOut \o << Len(coords) - 3, Len(coords) - 2,
                                            Len(coords) - 1 >>
                /\ IF bytesLeft - 48 < 2
                   THEN /\ BinaryThrow("Error while parsing additional triangle data in binary stl file")
                        /\ UNCHANGED << tri, bytesLeft >>
                   ELSE /\ coordsWithIndex' = coords
                        /\ tri' = tri + 1 /\ bytesLeft' = bytesLeft - 50
                        /\ UNCHANGED << pc, ret, errMsg >>
    /\ UNCHANGED << fn, errLine, coordsOut, solidRangesOut, firstWord, buffer, solidLine,
                    tokens, lineCount, numFaceVrts, numTris, fileSize, rawCoords,
                    rawTris, rawNormals, rawRanges, oob >>

\* after the loop: the one solid range, RemoveDoubles, return true
BinaryEnd ==
    /\ pc = "binary" /\ tri >= numTris
    /\ LET ranges == << 0, Len(trisOut) \div 3 >>
       IN  \E o \in RemoveDoubles(trisOut, coordsWithIndex) :
              /\ rawCoords' = coordsWithIndex /\ rawTris' = trisOut
              /\ rawNormals' = normalsOut /\ rawRanges' = ranges
              /\ solidRangesOut' = ranges
              /\ coordsOut' = o.uniqueCoordsOut
              /\ trisOut' = o.trisInOut
              /\ coordsWithIndex' = <<>>
              /\ oob' = o.oob
              /\ ret' = IF o.crash THEN "crash" ELSE "true"
              /\ pc' = IF o.crash THEN "crashed" ELSE "done"
    /\ UNCHANGED << fn, errMsg, errLine, normalsOut, firstWord, buffer, solidLine, tokens,
                    lineCount, numFaceVrts, numTris, tri, fileSize, bytesLeft >>

Next ==
    \/ TestSetup
    \/ TestRemoveDoubles
    \/ TestRefeed
    \/ AsciiOpen
    \/ AsciiRead
    \/ AsciiEnd
    \/ BinaryOpen
    \/ BinaryTriangle
    \/ BinaryEnd

Spec == Init /\ [][Next]_vars

\* ---------------------------------------------------------------- vocabulary of the properties
\* a call has returned true
Returned == pc = "done" /\ ret = "true"

\* a decoder (not a direct call of RemoveDoubles) has returned true
Ingested == Returned /\ fn \in {"ascii", "binary"}

\* the coordinate triple of the raw coordinate tagged t
RawPoint(t) ==
    rawCoords[CHOOSE i \in 1..Len(rawCoords) : rawCoords[i].index = t].data

\* the number of raw triangles, of final triangles, of unique coordinates
NumRawTris == Len(rawTris) \div 3
NumFinalTris == Len(trisOut) \div 3
NumVrts == Len(coordsOut) \div 3

\* the coordinate triple of corner j (0..2) of raw triangle k (0-based)
RawCorner(k, j) == RawPoint(At(rawTris, 3 * k + j))

\* raw triangle k has three pairwise different corner coordinates
Survives(k) ==
    /\ RawCorner(k, 0) # RawCorner(k, 1)
    /\ RawCorner(k, 0) # RawCorner(k, 2)
    /\ RawCorner(k, 1) # RawCorner(k, 2)

\* the surviving raw triangles with an original index below b
SurvivorsBelow(b) == { k \in 0..(NumRawTris - 1) : k < b /\ Survives(k) }

NumSurvivors == Cardinality(SurvivorsBelow(NumRawTris))

\* the raw triangle that is the m-th (0-based) surviving one in file order
Kept(m) ==
    CHOOSE k \in 0..(NumRawTris - 1) :
        Survives(k) /\ Cardinality(SurvivorsBelow(k)) = m

\* entry u (0-based) of the unique coordinate buffer
UniquePoint(u) == << At(coordsOut, 3 * u), At(coordsOut, 3 * u + 1), At(coordsOut, 3 * u + 2) >>

\* the lexicographic order on coordinate triples
LexLess(a, b) ==
    \/ a[1] < b[1]
    \/ (a[1] = b[1] /\ a[2] < b[2])
    \/ (a[1] = b[1] /\ a[2] = b[2] /\ a[3] < b[3])

\* final triangle m has the corner coordinates of the m-th surviving raw triangle
SameGeometry(m) ==
    \A j \in 0..2 :
        LET idx == At(trisOut, 3 * m + j)
        IN  /\ 0 <= idx /\ idx < NumVrts
            /\ UniquePoint(idx) = RawCorner(Kept(m), j)

\* ---------------------------------------------------------------- C1
\* C1: after RemoveDoubles on a non-empty raw coordinate list, every triangle
\* of the final buffer has, corner by corner, the coordinates of the raw
\* triangle it comes from.
C1_GeometryPreserved ==
    (Returned /\ Len(rawCoords) >= 1) =>
        \A m \in 0..(NumFinalTris - 1) : m < NumSurvivors /\ SameGeometry(m)

\* a call that merged two raw coordinates and kept a triangle
C1_Witness ==
    /\ Returned /\ fn = "test"
    /\ NumFinalTris >= 1 /\ NumVrts < Len(rawCoords)
    /\ \E i \in 1..Len(rawCoords) : rawCoords[i].index # i - 1

\* ---------------------------------------------------------------- C2
\* C2: the final buffer holds exactly the raw triangles with three pairwise
\* different corner coordinates, in file order, and no final triangle names
\* a unique vertex twice.
C2_SurvivorsExactly ==
    Returned =>
        /\ NumFinalTris = NumSurvivors
        /\ Len(trisOut) = 3 * NumFinalTris
        /\ \A m \in 0..(NumFinalTris - 1) :
              /\ SameGeometry(m)
              /\ At(trisOut, 3 * m) # At(trisOut, 3 * m + 1)
              /\ At(trisOut, 3 * m) # At(trisOut, 3 * m + 2)
              /\ At(trisOut, 3 * m + 1) # At(trisOut, 3 * m + 2)

\* a call that dropped the first of two raw triangles and kept the second
C2_Witness ==
    /\ Returned /\ NumRawTris = 2 /\ NumFinalTris = 1
    /\ ~Survives(0) /\ Survives(1)

\* ---------------------------------------------------------------- C3
\* C3: after a successful ingestion or a direct deduplication every entry of
\* the final triangle buffer is an index into the unique coordinate buffer.
C3_IndicesValid ==
    Returned =>
        \A i \in 1..Len(trisOut) : 0 <= trisOut[i] /\ trisOut[i] < NumVrts

\* a text file that produced a final triangle
C3_Witness == Ingested /\ fn = "ascii" /\ NumFinalTris >= 1

\* ---------------------------------------------------------------- C4
\* C4: after RemoveDoubles the unique coordinate buffer is strictly increasing
\* in the lexicographic order and has exactly one entry per distinct
\* coordinate triple of the raw corner stream.
C4_UniqueSorted ==
    Returned =>
        /\ Len(coordsOut) = 3 * NumVrts
        /\ \A u \in 1..(NumVrts - 1) : LexLess(UniquePoint(u - 1), UniquePoint(u))
        /\ { UniquePoint(u) : u \in 0..(NumVrts - 1) }
               = { rawCoords[i].data : i \in 1..Len(rawCoords) }

\* the same for a non-empty raw corner stream
C4_UniqueSortedNonEmpty == (Len(rawCoords) >= 1) => C4_UniqueSorted

\* ---------------------------------------------------------------- C5
\* C5: when a decoder returns true and read one normal per raw triangle, the
\* normal buffer holds exactly the normals of the surviving triangles, in order.
C5_NormalsAligned ==
    (Ingested /\ Len(rawNormals) = Len(rawTris)) =>
        /\ Len(normalsOut) = Len(trisOut)
        /\ \A m \in 0..(NumSurvivors - 1) : \A j \in 0..2 :
              /\ 3 * m + j < Len(normalsOut)
              /\ At(normalsOut, 3 * m + j) = At(rawNormals, 3 * Kept(m) + j)

\* ---------------------------------------------------------------- C6
\* C6: deduplication replaces every solid-range boundary b by the number of
\* surviving triangles with an original index below b and keeps the number
\* of boundaries.
C6_RangesAdjusted ==
    Ingested =>
        /\ Len(solidRangesOut) = Len(rawRanges)
        /\ \A i \in 1..Len(rawRanges) :
              solidRangesOut[i] = Cardinality(SurvivorsBelow(rawRanges[i]))

\* ---------------------------------------------------------------- C7
\* C7: after a successful ingestion the solid ranges are non-decreasing,
\* start at 0 and end at the number of final triangles.
C7_RangesWellFormed ==
    Ingested =>
        /\ Len(solidRangesOut) >= 1
        /\ \A i \in 1..(Len(solidRangesOut) - 1) :
              solidRangesOut[i] <= solidRangesOut[i + 1]
        /\ solidRangesOut[1] = 0
        /\ solidRangesOut[Len(solidRangesOut)] = NumFinalTris

\* ---------------------------------------------------------------- C8
\* C8: deduplication of an empty raw corner stream accesses nothing outside
\* a container and leaves the coordinate and triangle buffers empty; a binary
\* file with count 0 yields empty buffers and the solid ranges {0, 0}.
C8_EmptyMesh ==
    (pc \in {"done", "crashed"} /\ ret \in {"true", "crash"} /\ rawCoords = <<>>) =>
        /\ ~oob
        /\ ret = "true"
        /\ coordsOut = <<>> /\ trisOut = <<>>
        /\ (fn = "binary" => normalsOut = <<>> /\ solidRangesOut = <<0, 0>>)

\* ---------------------------------------------------------------- C9
\* C9: RemoveDoubles called on the buffers that a successful call produced
\* leaves the coordinate, triangle, normal and solid-range buffers as they are.
C9_FixedPoint ==
    [][ fn' = "refeed" =>
           /\ ret' = "true"
           /\ coordsOut' = coordsOut /\ trisOut' = trisOut
           /\ normalsOut' = normalsOut /\ solidRangesOut' = solidRangesOut ]_vars

\* a second call on the buffers of a decoder that kept a triangle
C9_Witness ==
    /\ Returned /\ fn = "refeed"
    /\ NumFinalTris >= 1 /\ NumVrts >= 3 /\ normalsOut # <<>>

\* ---------------------------------------------------------------- C10
\* C10 as stated: when the text decoder throws for a malformed line, the
\* coordinate, normal, triangle and solid-range buffers are all empty.
C10_NothingPopulated ==
    (fn = "ascii" /\ ret = "throw" /\ errLine >= 1) =>
        /\ coordsOut = <<>> /\ normalsOut = <<>>
        /\ trisOut = <<>> /\ solidRangesOut = <<>>

\* C10 as amended: the throwing iteration leaves the coordinate buffer empty
\* and the normal, triangle and solid-range buffers as the lines before the
\* malformed line left them.
C10_ThrowKeepsParsedPrefix ==
    [][ (pc = "ascii" /\ ret' = "throw") =>
           /\ errLine' = lineCount
           /\ coordsOut' = <<>>
           /\ normalsOut' = normalsOut /\ trisOut' = trisOut
           /\ solidRangesOut' = solidRangesOut ]_vars

\* a malformed line after a facet, a triangle and a solid marker
C10_Witness ==
    /\ fn = "ascii" /\ ret = "throw" /\ errLine >= 2
    /\ normalsOut # <<>> /\ solidRangesOut # <<>>

\* the line in buffer is one of the grammar violations the text decoder is to
\* reject: a vertex line with fewer than 4 tokens, a facet line with fewer than
\* 5 tokens or without "normal" as its second token, an outer line without
\* "loop" as its second token, an endfacet line after a number of vertices
\* other than 3 (endfacet leaves numFaceVrts as it found it)
GrammarViolation ==
    LET t == buffer.toks
    IN  /\ t # <<>>
        /\ \/ t[1] = "vertex" /\ Len(t) < 4
           \/ t[1] = "facet" /\ (Len(t) < 5 \/ t[2] # "normal")
           \/ t[1] = "outer" /\ (Len(t) < 2 \/ t[2] # "loop")
           \/ t[1] = "endfacet" /\ numFaceVrts # 3

\* C11: a line of the text file that violates the grammar ends the text
\* decoder with an exception that carries the number of that line: no further
\* line is read and RemoveDoubles is not called.
C11_ViolationRejected ==
    (fn = "ascii" /\ GrammarViolation) =>
        (pc = "done" /\ ret = "throw" /\ errLine = lineCount)

\* C11 holds of the lines whose last token ends the line
C11_RejectedWithoutTrailingSpace ==
    (fn = "ascii" /\ GrammarViolation /\ ~buffer.trail) =>
        (pc = "done" /\ ret = "throw" /\ errLine = lineCount)

\* the binary decoder has thrown on a file that it could open
BinaryThrown == fn = "binary" /\ ret = "throw" /\ errMsg # "Couldnt open file"

\* the binary decoder has left the record loop: the file is decoded, what
\* follows is the solid range and the call of RemoveDoubles
BinaryDecoded == fn = "binary" /\ pc = "binary" /\ tri >= numTris

\* the file is shorter than the header, the count field and numTris records
\* (numTris is 0 when the count field could not be read)
Truncated == fileSize < 84 + 50 * numTris

\* the decoder has read numTris normals and numTris triangles, triangle t
\* made of the raw corners 3t, 3t+1, 3t+2
ReadAllRecords ==
    /\ Len(normalsOut) = 3 * numTris
    /\ Len(trisOut) = 3 * numTris
    /\ Len(coordsWithIndex) = 3 * numTris
    /\ \A i \in 1..Len(trisOut) : trisOut[i] = i - 1
    /\ \A i \in 1..Len(coordsWithIndex) : coordsWithIndex[i].index = i - 1

C12_WitnessDecoded ==
    BinaryDecoded /\ numTris = 1 /\ fileSize > 84 + 50 /\ Len(trisOut) = 3

\* C13: a text file without a line whose first token is "solid" (a file that
\* starts with "SOLID", which STLFileHasASCIIFormat takes for a text file,
\* included), once decoded (with at least one vertex, so that RemoveDoubles
\* stays inside its arrays), has the solid ranges {0, number of triangles}.
C13_OneSolidWithoutMarker ==
    (Returned /\ fn = "ascii" /\ ~oob /\ ~solidLine) =>
        /\ Len(solidRangesOut) = 2
        /\ solidRangesOut[1] = 0
        /\ solidRangesOut[2] \in { NumRawTris, NumFinalTris }

\* the same for the files that ReadStlFile hands to the text decoder because
\* their first word is "SOLID"
C13_OneSolidAfterUpperCaseMarker ==
    (Returned /\ fn = "ascii" /\ ~oob /\ ~solidLine /\ firstWord = "SOLID") =>
        /\ Len(solidRangesOut) = 2
        /\ solidRangesOut[1] = 0
        /\ solidRangesOut[2] \in { NumRawTris, NumFinalTris }

\* without a "solid" line the list holds the closing boundary only
C13_ClosingBoundaryOnly ==
    (Returned /\ fn = "ascii" /\ ~oob /\ ~solidLine) => solidRangesOut = << NumRawTris >>

\* entry u of the unique coordinate buffer is named by the final triangle buffer
Referenced(u) == \E i \in 1..Len(trisOut) : trisOut[i] = u

\* the coordinate triples of the corners of the surviving raw triangles
SurvivingCorners ==
    { RawCorner(k, j) : k \in SurvivorsBelow(NumRawTris), j \in 0..2 }

\* C14: after RemoveDoubles (on at least one raw coordinate, so that it
\* stays inside its arrays) every entry of the unique coordinate buffer is
\* named by a corner of a triangle of the final triangle buffer.
C14_AllReferenced ==
    (Returned /\ ~oob) => \A u \in 0..(NumVrts - 1) : Referenced(u)

\* C14 as amended: the entries of the unique coordinate buffer that the final
\* triangle buffer names are those with the coordinates of a corner of a
\* surviving raw triangle; the other entries stay in the buffer unnamed.
C14_ReferencedIffSurvivingCorner ==
    Returned => \A u \in 0..(NumVrts - 1) :
                    Referenced(u) <=> (UniquePoint(u) \in SurvivingCorners)

\* a binary file whose one triangle is dropped: its two different corner
\* coordinates stay in the unique buffer, no triangle names them
C14_Witness ==
    /\ Ingested /\ fn = "binary" /\ NumRawTris = 1 /\ NumFinalTris = 0
    /\ NumVrts = 2 /\ ~Referenced(0) /\ ~Referenced(1)

\* a direct call with a dropped and a kept triangle
C14_WitnessKept ==
    /\ Returned /\ fn = "test" /\ NumRawTris = 2 /\ NumFinalTris = 1
    /\ NumVrts = 3 /\ \A u \in 0..2 : Referenced(u)

\* the text decoder has read its file without an exception: rawNormals,
\* rawTris and rawCoords are what it handed to RemoveDoubles
AsciiDecoded == fn = "ascii" /\ pc \in {"done", "crashed"} /\ ret # "throw"

\* no raw corner belongs to two raw triangles
CornersInOneTriangle ==
    \A i \in 1..Len(rawTris) : \A j \in 1..Len(rawTris) :
        rawTris[i] = rawTris[j] => i = j

\* C15: when the text decoder has read its file without an exception, before
\* RemoveDoubles, there are as many normals as raw triangles and no raw corner
\* belongs to two raw triangles.
C15_OneTrianglePerFacet ==
    AsciiDecoded => (Len(rawNormals) = Len(rawTris) /\ CornersInOneTriangle)

\* the second half of C15 alone, on files with three vertices at least
C15_CornerInOneTriangle ==
    (AsciiDecoded /\ Len(rawCoords) >= 3) => CornersInOneTriangle

\* the first half of C15 alone, on files with a triangle
C15_NormalPerTriangle ==
    (AsciiDecoded /\ Len(rawTris) >= 3) => Len(rawNormals) = Len(rawTris)

====
